---- MODULE Spec2Model ----
(***************************************************************************)
(* Model of gll::load_model (include/gll/gll.hpp): the recursive walk over *)
(* the imported assimp scene (process_assimp_node), the assembly of one    *)
(* output mesh per mesh reference (process_assimp_mesh) and the emission   *)
(* of one attribute of one vertex (process_assimp_vertex_attrib).          *)
(*                                                                         *)
(* A float of a vertex stream is represented by its 32-bit pattern read as *)
(* a signed integer: 0.0f is 0, and the float that shares its storage with *)
(* the int -1 in the union of lines 167-171 is -1.                         *)
(***************************************************************************)
EXTENDS Integers, Sequences, FiniteSets, TLC

(* ------------------------------------------------------------------ *)
(* Bounds of the model                                                  *)
(* ------------------------------------------------------------------ *)
MaxVerts == 2
MaxInfl == 2
MaxFaces == 2
MaxNodes == 3

(* ------------------------------------------------------------------ *)
(* gll::model::attribute (lines 44-52)                                  *)
(* ------------------------------------------------------------------ *)
position == 0
normal == 1
texcoord == 2
tangents_bitangents == 3
bones_indices == 4
bones_weights == 5

attribute == {position, normal, texcoord, tangents_bitangents,
              bones_indices, bones_weights}

(* A set ordered by std::greater: decreasing enum value. *)
RECURSIVE SetOrderDescending(_)
SetOrderDescending(S) ==
    IF S = {} THEN <<>>
    ELSE LET m == CHOOSE x \in S : \A y \in S : x >= y
         IN <<m>> \o SetOrderDescending(S \ {m})

(* std::set<attribute> iterates in increasing enum value. *)
RECURSIVE SetOrder(_)
SetOrder(S) ==
    IF S = {} THEN <<>>
    ELSE LET m == CHOOSE x \in S : \A y \in S : x <= y
         IN <<m>> \o SetOrder(S \ {m})

(* ------------------------------------------------------------------ *)
(* The imported data (assimp's aiMesh, aiFace, aiBone, aiNode, aiScene) *)
(* ------------------------------------------------------------------ *)

(* The float stored in component c (1 = x, 2 = y, 3 = z) of element     *)
(* vertex_id of source array number arr of a mesh: distinct and never   *)
(* the pattern of 0.0f or of the int -1.                                *)
SrcFloat(arr, vertex_id, c) == 1000 * arr + 10 * vertex_id + c

mVertices(vertex_id)      == [x |-> SrcFloat(1, vertex_id, 1), y |-> SrcFloat(1, vertex_id, 2), z |-> SrcFloat(1, vertex_id, 3)]
mNormals(vertex_id)       == [x |-> SrcFloat(2, vertex_id, 1), y |-> SrcFloat(2, vertex_id, 2), z |-> SrcFloat(2, vertex_id, 3)]
mTextureCoords0(vertex_id) == [x |-> SrcFloat(3, vertex_id, 1), y |-> SrcFloat(3, vertex_id, 2), z |-> SrcFloat(3, vertex_id, 3)]
mTangents(vertex_id)      == [x |-> SrcFloat(4, vertex_id, 1), y |-> SrcFloat(4, vertex_id, 2), z |-> SrcFloat(4, vertex_id, 3)]
mBitangents(vertex_id)    == [x |-> SrcFloat(5, vertex_id, 1), y |-> SrcFloat(5, vertex_id, 2), z |-> SrcFloat(5, vertex_id, 3)]

(* aiMesh::HasPositions() and its siblings: the array is there and the  *)
(* mesh has vertices; HasBones(): the mesh lists at least one bone.     *)
HasPositions(mesh) == mesh.hasVertices /\ mesh.mNumVertices > 0
HasNormals(mesh) == mesh.hasNormals /\ mesh.mNumVertices > 0
HasTextureCoords0(mesh) == mesh.hasTextureCoords0 /\ mesh.mNumVertices > 0
HasTangentsAndBitangents(mesh) ==
    mesh.hasTangents /\ mesh.hasBitangents /\ mesh.mNumVertices > 0
HasBones(mesh) == Len(mesh.mBones) > 0

(* ------------------------------------------------------------------ *)
(* process_assimp_vertex_attrib (lines 129-193)                         *)
(* ------------------------------------------------------------------ *)

(* union { float f; int i; } conversion: f read after i was written is  *)
(* the float with i's bit pattern (lines 167-171, 174). The read of the *)
(* inactive member is defined by GCC, Clang and MSVC as this            *)
(* reinterpretation; the pattern of -1 is a quiet NaN, which a copy     *)
(* into the vector keeps bit for bit.                                   *)
union_f_of_i(i) == i

(* push_back(0) on a std::vector<float>: int 0 converted to 0.0f.       *)
float_of_zero == 0

Repeat(n, w) == [k \in 1..n |-> w]

(* The fallback without its count selection: three zeros for every attribute. *)
push_zeros_three(attrib) == Repeat(3, float_of_zero)

(* _process_assimp_vertex_attrib_push_zeros (lines 183-192) *)
push_zeros(attrib) ==
    LET count == IF attrib = texcoord THEN 2
                 ELSE IF attrib = tangents_bitangents THEN 6
                 ELSE 3
    IN Repeat(count, float_of_zero)

(* case bones_indices (lines 166-175): the no-bone value in every slot *)
push_no_bones(settings) ==
    Repeat(settings.max_influencial_bones, union_f_of_i(-1))

(* A weight loop that starts at slot 1 and leaves the last slot out.    *)
push_no_weights_short(settings) ==
    Repeat(settings.max_influencial_bones - 1, float_of_zero)

(* case bones_weights (lines 176-179) *)
push_no_weights(settings) ==
    Repeat(settings.max_influencial_bones, float_of_zero)

(* The floats one call appends to *target. *)
process_assimp_vertex_attrib(vertex_id, attrib, mesh, settings) ==
    CASE attrib = position ->
           IF ~HasPositions(mesh) THEN push_zeros(attrib)
           ELSE <<mVertices(vertex_id).x, mVertices(vertex_id).z, mVertices(vertex_id).y>>
      [] attrib = normal ->
           IF ~HasNormals(mesh) THEN push_zeros(attrib)
           ELSE <<mNormals(vertex_id).x, mNormals(vertex_id).z, mNormals(vertex_id).y>>
      [] attrib = texcoord ->
           IF ~HasTextureCoords0(mesh) THEN push_zeros(attrib)
           ELSE <<mTextureCoords0(vertex_id).x, mTextureCoords0(vertex_id).y>>
      [] attrib = tangents_bitangents ->
           IF ~HasTangentsAndBitangents(mesh) THEN push_zeros(attrib)
           ELSE <<mTangents(vertex_id).x, mTangents(vertex_id).z, mTangents(vertex_id).y,
                  mBitangents(vertex_id).x, mBitangents(vertex_id).z, mBitangents(vertex_id).y>>
      [] attrib = bones_indices -> push_no_bones(settings)
      [] attrib = bones_weights -> push_no_weights(settings)
      [] OTHER -> <<>>

(* ------------------------------------------------------------------ *)
(* process_assimp_mesh (lines 195-373), one operator per block          *)
(* ------------------------------------------------------------------ *)

(* //Load Indicies (lines 209-214): the inner loop over one face ...    *)
RECURSIVE face_indices(_, _, _)
face_indices(indicies, face, j) ==
    IF j >= face.mNumIndices THEN indicies
    ELSE face_indices(Append(indicies, face.mIndices[j + 1]), face, j + 1)

(* The outer loop walking the faces from the last to the first.          *)
RECURSIVE load_indicies_backwards(_, _, _)
load_indicies_backwards(indicies, mesh, face_id) ==
    IF face_id >= mesh.mNumFaces THEN indicies
    ELSE load_indicies_backwards(
             face_indices(indicies, mesh.mFaces[mesh.mNumFaces - face_id], 0),
             mesh, face_id + 1)

(* ... and the outer loop over the faces of the mesh.                   *)
RECURSIVE load_indicies(_, _, _)
load_indicies(indicies, mesh, face_id) ==
    IF face_id >= mesh.mNumFaces THEN indicies
    ELSE load_indicies(face_indices(indicies, mesh.mFaces[face_id + 1], 0),
                       mesh, face_id + 1)

(* The layout without the insert of settings.force_attributes.          *)
find_layout_detected(mesh, settings) ==
    (IF HasPositions(mesh) THEN {position} ELSE {})
    \cup (IF HasNormals(mesh) THEN {normal} ELSE {})
    \cup (IF HasTextureCoords0(mesh) THEN {texcoord} ELSE {})
    \cup (IF HasTangentsAndBitangents(mesh) THEN {tangents_bitangents} ELSE {})
    \cup (IF HasBones(mesh) THEN {bones_indices, bones_weights} ELSE {})

(* //Findout vertex layout (lines 218-231) *)
find_layout(mesh, settings) ==
    (IF HasPositions(mesh) THEN {position} ELSE {})
    \cup (IF HasNormals(mesh) THEN {normal} ELSE {})
    \cup (IF HasTextureCoords0(mesh) THEN {texcoord} ELSE {})
    \cup (IF HasTangentsAndBitangents(mesh) THEN {tangents_bitangents} ELSE {})
    \cup (IF HasBones(mesh) THEN {bones_indices, bones_weights} ELSE {})
    \cup settings.force_attributes

(* elements_per_attrib (lines 238-249): read by the two reserve() calls *)
(* only (lines 263, 271), which change the capacity of a stream and not *)
(* its content.                                                         *)
elements_per_attrib(attrib, settings) ==
    CASE attrib = position -> 3
      [] attrib = normal -> 3
      [] attrib = texcoord -> 2
      [] attrib = tangents_bitangents -> 6
      [] attrib = bones_indices -> settings.max_influencial_bones
      [] attrib = bones_weights -> settings.max_influencial_bones
      [] OTHER -> 0

(* //Create containers for vertices, else branch (lines 267-273): one    *)
(* stream pushed per attribute, the attribute mapped to the list's back. *)
(* A target is the position of the stream in outmesh.vertices (the       *)
(* std::list keeps the address of an element when it grows).             *)
RECURSIVE separate_containers(_, _)
separate_containers(c, attribs) ==
    IF attribs = <<>> THEN c
    ELSE LET vertices == Append(c.vertices, <<>>)
         IN separate_containers(
                [vertices |-> vertices,
                 targets  |-> (Head(attribs) :> Len(vertices)) @@ c.targets],
                Tail(attribs))

(* then branch (lines 253-263): one stream, every attribute mapped to it *)
interleaved_containers(attribs) ==
    [vertices |-> <<<<>>>>,
     targets  |-> [a \in {attribs[k] : k \in 1..Len(attribs)} |-> 1]]

(* The two branches of line 251 taken the wrong way round.              *)
create_containers_swapped(model_attribs, settings) ==
    IF ~settings.interleave_attributes
    THEN interleaved_containers(SetOrder(model_attribs))
    ELSE separate_containers([vertices |-> <<>>, targets |-> <<>>],
                             SetOrder(model_attribs))

create_containers(model_attribs, settings) ==
    IF settings.interleave_attributes
    THEN interleaved_containers(SetOrder(model_attribs))
    ELSE separate_containers([vertices |-> <<>>, targets |-> <<>>],
                             SetOrder(model_attribs))

(* //Load Vertices (lines 280-293): the inner loop over the attributes   *)
RECURSIVE load_vertex(_, _, _, _, _, _)
load_vertex(vertices, vertex_id, attribs, mesh, targets, settings) ==
    IF attribs = <<>> THEN vertices
    ELSE LET attrib == Head(attribs)
             t == targets[attrib]
         IN load_vertex(
                [vertices EXCEPT ![t] =
                    @ \o process_assimp_vertex_attrib(vertex_id, attrib, mesh, settings)],
                vertex_id, Tail(attribs), mesh, targets, settings)

(* ... and the outer loop over the vertices.                             *)
RECURSIVE load_vertices(_, _, _, _, _, _)
load_vertices(vertices, vertex_id, model_attribs, mesh, targets, settings) ==
    IF vertex_id >= mesh.mNumVertices THEN vertices
    ELSE load_vertices(
             load_vertex(vertices, vertex_id, SetOrder(model_attribs),
                         mesh, targets, settings),
             vertex_id + 1, model_attribs, mesh, targets, settings)

(* ------------------------------------------------------------------ *)
(* Inputs: the settings of the caller and the scene the importer gives  *)
(* ------------------------------------------------------------------ *)

(* aiFace number face_id of a mesh with n vertices: a triangle or a     *)
(* line, its indices below n.                                           *)
SrcFace(face_id, n) ==
    LET num == IF face_id % 2 = 0 THEN 3 ELSE 2
    IN [mNumIndices |-> num,
        mIndices    |-> [j \in 1..num |-> (face_id + j) % n]]

(* aiBone: a name and (vertex, weight) pairs, two for every vertex.     *)
SrcBone(name, bone_id, n) ==
    [mName    |-> name,
     mWeights |-> [k \in 1..(2 * n) |->
                     [mVertexId |-> (k - 1) \div 2,
                      mWeight   |-> 7000 + 100 * bone_id + k]]]

SrcMesh(n, hv, hn, ht, htb, faces, names) ==
    [mNumVertices      |-> n,
     hasVertices       |-> hv,
     hasNormals        |-> hn,
     hasTextureCoords0 |-> ht,
     hasTangents       |-> htb,
     hasBitangents     |-> htb,
     mNumFaces         |-> faces,
     mFaces            |-> [f \in 1..faces |-> SrcFace(f - 1, n)],
     mBones            |-> [b \in 1..Len(names) |-> SrcBone(names[b], b - 1, n)],
     mMaterialIndex    |-> faces]

BoneLists == {<<>>, <<"A">>, <<"B", "A">>}

(* Every combination of present arrays; a mesh without vertices has no  *)
(* array and no face.                                                   *)
LayoutMeshes ==
    {SrcMesh(0, FALSE, FALSE, FALSE, FALSE, 0, names) : names \in {<<>>, <<"A", "B">>}}
    \cup
    {SrcMesh(MaxVerts, f[1], f[2], f[3], f[4], 1, names) :
        f \in [1..4 -> BOOLEAN], names \in {<<>>, <<"A", "B">>}}

WalkMeshes ==
    {SrcMesh(MaxVerts, TRUE, FALSE, FALSE, FALSE, faces, names) :
        faces \in 0..MaxFaces, names \in BoneLists}

(* max_influencial_bones is a count: the settings take it from 0 up.   *)
LayoutSettings ==
    [interleave_attributes : BOOLEAN,
     max_influencial_bones : 0..MaxInfl,
     force_attributes      : SUBSET attribute]

WalkSettings ==
    [interleave_attributes : BOOLEAN,
     max_influencial_bones : {MaxInfl},
     force_attributes      : {{}}]

(* The node trees of at most MaxNodes nodes: parent[i] < i, node 1 the  *)
(* root, the children of a node in increasing number.                   *)
ParentMaps ==
    UNION {{p \in [1..k -> 0..(k - 1)] : p[1] = 0 /\ \A i \in 2..k : p[i] \in 1..(i - 1)} :
           k \in 1..MaxNodes}

ChildrenOf(p, i) ==
    SetOrder({j \in DOMAIN p : p[j] = i})

NodeRefs == {<<>>, <<1, 0>>}

Trees ==
    UNION {{[i \in DOMAIN p |-> [mMeshes   |-> r[i],
                                   mNumMeshes |-> Len(r[i]),
                                   mChildren |-> ChildrenOf(p, i),
                                   mNumChildren |-> Len(ChildrenOf(p, i))]] :
              r \in [DOMAIN p -> NodeRefs]} :
           p \in ParentMaps}

OneMeshTree ==
    <<[mMeshes |-> <<0>>, mNumMeshes |-> 1, mChildren |-> <<>>, mNumChildren |-> 0]>>

AiScene(isNull, incomplete, root, meshes, nodes) ==
    [isNull |-> isNull, incomplete |-> incomplete, hasRootNode |-> root,
     mMeshes |-> meshes, nodes |-> nodes]

LayoutScenes == {AiScene(FALSE, FALSE, TRUE, <<m>>, OneMeshTree) : m \in LayoutMeshes}

(* scene->mMeshes of the walked scenes: a mesh of WalkMeshes and one    *)
(* more mesh, with one face and the bone "B".                           *)
WalkScenes ==
    {AiScene(FALSE, FALSE, TRUE,
             <<m, SrcMesh(1, TRUE, TRUE, FALSE, FALSE, 1, <<"B">>)>>, t) :
        m \in WalkMeshes, t \in Trees}

(* What ReadFile gives when the import fails: no scene, a scene flagged *)
(* AI_SCENE_FLAGS_INCOMPLETE, a scene without a root node.              *)
FailedScenes ==
    {AiScene(f[1], f[2], f[3], <<m>>, OneMeshTree) :
        f \in {<<TRUE, FALSE, FALSE>>, <<FALSE, TRUE, TRUE>>, <<FALSE, FALSE, FALSE>>,
               <<FALSE, TRUE, FALSE>>},
        m \in {SrcMesh(1, TRUE, FALSE, FALSE, FALSE, 1, <<"A">>)}}

(* ------------------------------------------------------------------ *)
(* State                                                                *)
(* ------------------------------------------------------------------ *)
VARIABLES
    settings,                  \* const model_load_settings& of load_model
    scene,                     \* what import.ReadFile returned
    pc,                        \* position in load_model: "start", "walk", "returned"
    stack,                     \* the frames of process_assimp_node: node, i (both loops)
    output,                    \* model output of load_model
    result,                    \* the pair load_model returns
    mpc,                       \* position in process_assimp_mesh
    mesh,                      \* aiMesh* mesh of process_assimp_mesh
    model_attribs,             \* local of process_assimp_mesh
    attribs_save_targets_map,  \* local of process_assimp_mesh
    entered                    \* history: the meshes process_assimp_mesh was entered with

vars == <<settings, scene, pc, stack, output, result, mpc, mesh,
          model_attribs, attribs_save_targets_map, entered>>

EmptyModel == [bones |-> <<>>, meshes |-> <<>>]

EmptyMesh == [attributes |-> {}, vertices |-> <<>>, indicies |-> <<>>, material_id |-> 0]

NoMesh == SrcMesh(0, FALSE, FALSE, FALSE, FALSE, 0, <<>>)

InitWith(SettingsSet, SceneSet) ==
    /\ settings \in SettingsSet
    /\ scene \in SceneSet
    /\ pc = "start"
    /\ stack = <<>>
    /\ output = EmptyModel
    /\ result = [first |-> FALSE, second |-> EmptyModel]
    /\ mpc = "idle"
    /\ mesh = NoMesh
    /\ model_attribs = {}
    /\ attribs_save_targets_map = <<>>
    /\ entered = <<>>

Init ==
    \/ InitWith(LayoutSettings, LayoutScenes)
    \/ InitWith(WalkSettings, WalkScenes \cup FailedScenes)

outmesh == output.meshes[Len(output.meshes)]

SetOutmesh(m) ==
    output' = [output EXCEPT !.meshes[Len(output.meshes)] = m]

(* ------------------------------------------------------------------ *)
(* gll::load_model (lines 392-404)                                      *)
(* ------------------------------------------------------------------ *)

(* The test of line 399 without the AI_SCENE_FLAGS_INCOMPLETE term.     *)
import_failed_flag_ignored(sc) == sc.isNull \/ ~sc.hasRootNode

(* line 399 *)
import_failed(sc) == sc.isNull \/ sc.incomplete \/ ~sc.hasRootNode

(* lines 397-400: return {false, {}} *)
LoadModelFail ==
    /\ pc = "start"
    /\ import_failed(scene)
    /\ result' = [first |-> FALSE, second |-> EmptyModel]
    /\ pc' = "returned"
    /\ UNCHANGED <<settings, scene, stack, output, mpc, mesh, model_attribs,
                   attribs_save_targets_map, entered>>

(* line 402: the call of process_assimp_node on scene->mRootNode *)
LoadModelWalk ==
    /\ pc = "start"
    /\ ~import_failed(scene)
    /\ stack' = <<[node |-> 1, i |-> 0, c |-> 0]>>
    /\ pc' = "walk"
    /\ UNCHANGED <<settings, scene, output, result, mpc, mesh, model_attribs,
                   attribs_save_targets_map, entered>>

(* line 403: return {true, std::move(output)} *)
LoadModelReturn ==
    /\ pc = "walk"
    /\ stack = <<>>
    /\ result' = [first |-> TRUE, second |-> output]
    /\ output' = EmptyModel
    /\ pc' = "returned"
    /\ UNCHANGED <<settings, scene, stack, mpc, mesh, model_attribs,
                   attribs_save_targets_map, entered>>

(* ------------------------------------------------------------------ *)
(* process_assimp_node (lines 375-390)                                  *)
(* ------------------------------------------------------------------ *)
top == stack[Len(stack)]
node == scene.nodes[top.node]

(* lines 382-385 and 203-205: the next mesh of the node is looked up   *)
(* and process_assimp_mesh is entered: the output mesh is created.     *)
NodeMesh ==
    /\ pc = "walk" /\ stack # <<>> /\ mpc = "idle"
    /\ top.i < node.mNumMeshes
    /\ LET m == scene.mMeshes[node.mMeshes[top.i + 1] + 1]
       IN /\ mesh' = m
          /\ entered' = Append(entered, m)
          /\ output' = [output EXCEPT !.meshes =
                            Append(@, [EmptyMesh EXCEPT !.material_id = m.mMaterialIndex])]
    /\ mpc' = "indicies"
    /\ UNCHANGED <<settings, scene, pc, stack, result, model_attribs,
                   attribs_save_targets_map>>

(* lines 207-214 *)
LoadIndicies ==
    /\ mpc = "indicies"
    /\ SetOutmesh([outmesh EXCEPT !.indicies = load_indicies(@, mesh, 0)])
    /\ mpc' = "layout"
    /\ UNCHANGED <<settings, scene, pc, stack, result, mesh, model_attribs,
                   attribs_save_targets_map, entered>>

(* lines 216-231 *)
FindLayout ==
    /\ mpc = "layout"
    /\ model_attribs' = find_layout(mesh, settings)
    /\ mpc' = "containers"
    /\ UNCHANGED <<settings, scene, pc, stack, output, result, mesh,
                   attribs_save_targets_map, entered>>

(* lines 233-276 *)
CreateContainers ==
    /\ mpc = "containers"
    /\ LET c == create_containers(model_attribs, settings)
       IN /\ attribs_save_targets_map' = c.targets
          /\ SetOutmesh([outmesh EXCEPT !.vertices = c.vertices,
                                        !.attributes = model_attribs])
    /\ mpc' = "vertices"
    /\ UNCHANGED <<settings, scene, pc, stack, result, mesh, model_attribs, entered>>

(* lines 278-293, and the return to the loop of line 382: the block of *)
(* lines 295-372 is a comment, nothing runs between the two.           *)
LoadVertices ==
    /\ mpc = "vertices"
    /\ SetOutmesh([outmesh EXCEPT !.vertices =
                       load_vertices(@, 0, model_attribs, mesh,
                                     attribs_save_targets_map, settings)])
    /\ mpc' = "idle"
    /\ stack' = [stack EXCEPT ![Len(stack)].i = @ + 1]
    /\ mesh' = NoMesh
    /\ model_attribs' = {}
    /\ attribs_save_targets_map' = <<>>
    /\ UNCHANGED <<settings, scene, pc, result, entered>>

(* lines 388-389: the call on the next child *)
NodeChild ==
    /\ pc = "walk" /\ stack # <<>> /\ mpc = "idle"
    /\ top.i >= node.mNumMeshes
    /\ top.c < node.mNumChildren
    /\ stack' = Append(stack, [node |-> node.mChildren[top.c + 1], i |-> 0, c |-> 0])
    /\ UNCHANGED <<settings, scene, pc, output, result, mpc, mesh, model_attribs,
                   attribs_save_targets_map, entered>>

(* line 390: the return, into the loop of line 388 of the caller *)
NodeReturn ==
    /\ pc = "walk" /\ stack # <<>> /\ mpc = "idle"
    /\ top.i >= node.mNumMeshes
    /\ top.c >= node.mNumChildren
    /\ LET rest == SubSeq(stack, 1, Len(stack) - 1)
       IN stack' = IF rest = <<>> THEN rest
                   ELSE [rest EXCEPT ![Len(rest)].c = @ + 1]
    /\ UNCHANGED <<settings, scene, pc, output, result, mpc, mesh, model_attribs,
                   attribs_save_targets_map, entered>>

Next ==
    \/ LoadModelFail
    \/ LoadModelWalk
    \/ LoadModelReturn
    \/ NodeMesh
    \/ LoadIndicies
    \/ FindLayout
    \/ CreateContainers
    \/ LoadVertices
    \/ NodeChild
    \/ NodeReturn

Spec == Init /\ [][Next]_vars

(* ================================================================== *)
(* Properties                                                           *)
(* ================================================================== *)

(* The model the caller holds after the return, the one under          *)
(* construction before it.                                              *)
TheModel == IF pc = "returned" THEN result.second ELSE output

(* The meshes whose assembly is over: all but the one in progress.     *)
Assembled ==
    1..(IF mpc = "idle" THEN Len(TheModel.meshes) ELSE Len(TheModel.meshes) - 1)

OutMesh(k) == TheModel.meshes[k]
Source(k) == entered[k]

(* The element counts of the attribute catalog. *)
ElementCount(a) ==
    CASE a = position -> 3
      [] a = normal -> 3
      [] a = texcoord -> 2
      [] a = tangents_bitangents -> 6
      [] a = bones_indices -> settings.max_influencial_bones
      [] a = bones_weights -> settings.max_influencial_bones

RECURSIVE SumCounts(_)
SumCounts(S) ==
    IF S = {} THEN 0
    ELSE LET a == CHOOSE x \in S : TRUE
         IN ElementCount(a) + SumCounts(S \ {a})

Stride(S) == SumCounts(S)
OffsetIn(S, a) == SumCounts({b \in S : b < a})
RankIn(S, a) == Cardinality({b \in S : b <= a})

Missing == 0 - 999
At(seq, i) == IF i \in 1..Len(seq) THEN seq[i] ELSE Missing

(* The value found at element j (1-based) of attribute a of vertex v,   *)
(* by the layout rule: in the single stream at v * stride + offset, or  *)
(* in the stream of a's rank at v * count.                              *)
Slot(out, a, v, j) ==
    LET S == out.attributes
    IN IF settings.interleave_attributes
       THEN At(At(out.vertices, 1), v * Stride(S) + OffsetIn(S, a) + j)
       ELSE At(At(out.vertices, RankIn(S, a)), v * ElementCount(a) + j)

(* Whether the source mesh physically has the attribute. *)
SourceHas(src, a) ==
    CASE a = position -> src.hasVertices /\ src.mNumVertices > 0
      [] a = normal -> src.hasNormals /\ src.mNumVertices > 0
      [] a = texcoord -> src.hasTextureCoords0 /\ src.mNumVertices > 0
      [] a = tangents_bitangents ->
           src.hasTangents /\ src.hasBitangents /\ src.mNumVertices > 0
      [] a = bones_indices -> src.mBones # <<>>
      [] a = bones_weights -> src.mBones # <<>>

TotalLength(out) ==
    LET RECURSIVE Total(_)
        Total(i) == IF i = 0 THEN 0 ELSE Len(out.vertices[i]) + Total(i - 1)
    IN Total(Len(out.vertices))

(* C1: an assembled mesh of n vertices and attribute set S has, when    *)
(* interleaved, exactly one stream of n * (sum of the element counts of *)
(* S) values and, when not, one stream of n * count(a) values for each  *)
(* a of S; position contributes n * 3 values.                           *)
C1_StreamLengths ==
    \A k \in Assembled :
        LET out == OutMesh(k)
            n == Source(k).mNumVertices
            S == out.attributes
        IN IF settings.interleave_attributes
           THEN /\ Len(out.vertices) = 1
                /\ Len(out.vertices[1]) = n * Stride(S)
           ELSE /\ Len(out.vertices) = Cardinality(S)
                /\ \A a \in S : Len(At(out.vertices, RankIn(S, a))) = n * ElementCount(a)

C1_Witness ==
    \E k \in Assembled :
        /\ Source(k).mNumVertices >= 2
        /\ position \in OutMesh(k).attributes
        /\ texcoord \in OutMesh(k).attributes
        /\ bones_indices \in OutMesh(k).attributes
        /\ settings.max_influencial_bones >= 2

(* What C2 says of an attribute the source lacks and the caller does    *)
(* not force: it is not in the set, it has no stream and adds nothing.  *)
AbsentNotEmitted(out, src, a) ==
    /\ a \notin out.attributes
    /\ TotalLength(out) = src.mNumVertices * Stride(out.attributes)
    /\ ~settings.interleave_attributes => Len(out.vertices) = Cardinality(out.attributes)

ForcedFilledWith(out, src, a, fill) ==
    /\ a \in out.attributes
    /\ \A v \in 0..(src.mNumVertices - 1) :
           \A j \in 1..ElementCount(a) : Slot(out, a, v, j) = fill
    /\ TotalLength(out) = src.mNumVertices * Stride(out.attributes)

(* C2 as stated: an attribute absent from the source is, when not       *)
(* forced, not emitted at all and, when forced, emitted as              *)
(* element_count zeros for every vertex, for each of the six.           *)
C2_AbsentForcedZero ==
    \A k \in Assembled : \A a \in attribute :
        ~SourceHas(Source(k), a) =>
            IF a \in settings.force_attributes
            THEN ForcedFilledWith(OutMesh(k), Source(k), a, 0)
            ELSE AbsentNotEmitted(OutMesh(k), Source(k), a)

(* C2 amended: as C2, but the values of a forced bones_indices are all  *)
(* the no-bone value -1; the other five attributes are zeros.           *)
C2_AbsentForcedFallback ==
    \A k \in Assembled : \A a \in attribute :
        ~SourceHas(Source(k), a) =>
            IF a \in settings.force_attributes
            THEN ForcedFilledWith(OutMesh(k), Source(k), a,
                                  IF a = bones_indices THEN -1 ELSE 0)
            ELSE AbsentNotEmitted(OutMesh(k), Source(k), a)

C2_Witness ==
    \E k \in Assembled :
        /\ Source(k).mNumVertices >= 2
        /\ ~SourceHas(Source(k), normal) /\ normal \in settings.force_attributes
        /\ ~SourceHas(Source(k), bones_indices) /\ bones_indices \in settings.force_attributes
        /\ ~SourceHas(Source(k), texcoord) /\ texcoord \notin settings.force_attributes
        /\ SourceHas(Source(k), position)
        /\ settings.max_influencial_bones >= 1

(* The (bone name, weight) pairs the bones of a source mesh supply for  *)
(* vertex v, in encounter order: bone after bone, pair after pair.      *)
RECURSIVE PairsOfBone(_, _, _)
PairsOfBone(bone, v, k) ==
    IF k > Len(bone.mWeights) THEN <<>>
    ELSE (IF bone.mWeights[k].mVertexId = v
          THEN <<[name |-> bone.mName, weight |-> bone.mWeights[k].mWeight]>>
          ELSE <<>>) \o PairsOfBone(bone, v, k + 1)

RECURSIVE PairsOfVertex(_, _, _)
PairsOfVertex(src, v, b) ==
    IF b > Len(src.mBones) THEN <<>>
    ELSE PairsOfBone(src.mBones[b], v, 1) \o PairsOfVertex(src, v, b + 1)

(* The bone names of the meshes assembled so far, each once, in the     *)
(* order of their first appearance.                                     *)
RECURSIVE FirstSeen(_, _, _)
FirstSeen(seen, k, b) ==
    IF k > Len(entered) \/ k \notin Assembled THEN seen
    ELSE IF b > Len(entered[k].mBones) THEN FirstSeen(seen, k + 1, 1)
    ELSE LET name == entered[k].mBones[b].mName
         IN FirstSeen(IF \E i \in 1..Len(seen) : seen[i] = name
                      THEN seen ELSE Append(seen, name),
                      k, b + 1)

BoneNamesSeen == FirstSeen(<<>>, 1, 1)

BoneIdOf(name) ==
    IF name \in DOMAIN TheModel.bones THEN TheModel.bones[name].id ELSE Missing

(* C3: a vertex for which the source bones supply more than             *)
(* max_influencial_bones pairs holds, once its mesh is assembled,       *)
(* exactly the first max_influencial_bones of them, in encounter order, *)
(* slot after slot.                                                     *)
C3_FirstPairsKept ==
    \A k \in Assembled :
        \A v \in 0..(Source(k).mNumVertices - 1) :
            LET pairs == PairsOfVertex(Source(k), v, 1)
            IN Len(pairs) > settings.max_influencial_bones =>
                   \A j \in 1..settings.max_influencial_bones :
                       /\ Slot(OutMesh(k), bones_indices, v, j) = BoneIdOf(pairs[j].name)
                       /\ Slot(OutMesh(k), bones_weights, v, j) = pairs[j].weight

(* C4: every bone name of the meshes processed so far is in             *)
(* model.bones, its id the number of distinct names seen before it.     *)
C4_BoneIdsFirstSeen ==
    \A i \in 1..Len(BoneNamesSeen) :
        /\ BoneNamesSeen[i] \in DOMAIN TheModel.bones
        /\ BoneIdOf(BoneNamesSeen[i]) = i - 1

(* C5 as stated: in every assembled mesh, beside every bone-index slot  *)
(* that holds -1 there is a bone-weight slot, at the same position, and *)
(* it holds 0, whatever the source bones and the settings.              *)
C5_SentinelHasZeroWeight ==
    \A k \in Assembled :
        bones_indices \in OutMesh(k).attributes =>
            \A v \in 0..(Source(k).mNumVertices - 1) :
                \A j \in 1..settings.max_influencial_bones :
                    Slot(OutMesh(k), bones_indices, v, j) = -1 =>
                        /\ bones_weights \in OutMesh(k).attributes
                        /\ Slot(OutMesh(k), bones_weights, v, j) = 0

(* C5 amended: the weight slot exists and holds 0 whenever the mesh's   *)
(* attribute set has bones_weights, which it has when the source mesh   *)
(* has bones or bones_weights is forced, and only then.                 *)
C5_SentinelHasZeroWeightIfEmitted ==
    \A k \in Assembled :
        /\ bones_weights \in OutMesh(k).attributes
               <=> (Source(k).mBones # <<>> \/ bones_weights \in settings.force_attributes)
        /\ (bones_indices \in OutMesh(k).attributes /\ bones_weights \in OutMesh(k).attributes) =>
               \A v \in 0..(Source(k).mNumVertices - 1) :
                   \A j \in 1..settings.max_influencial_bones :
                       Slot(OutMesh(k), bones_indices, v, j) = -1 =>
                           Slot(OutMesh(k), bones_weights, v, j) = 0

C5_Witness ==
    \E k \in Assembled :
        /\ Source(k).mNumVertices = 2
        /\ Source(k).mBones = <<>>
        /\ settings.force_attributes = {bones_indices, bones_weights}
        /\ OutMesh(k).attributes = {position, bones_indices, bones_weights}
        /\ settings.max_influencial_bones = 2
        /\ ~settings.interleave_attributes
        /\ OutMesh(k).vertices[2] = <<-1, -1, -1, -1>>
        /\ OutMesh(k).vertices[3] = <<0, 0, 0, 0>>

(* The mesh references reached from a node, depth first: the node's own *)
(* and then those of its children, child after child.                   *)
RECURSIVE RefsFrom(_)
RefsFrom(n) ==
    LET nd == scene.nodes[n]
        RECURSIVE OfChildren(_)
        OfChildren(c) ==
            IF c > Len(nd.mChildren) THEN <<>>
            ELSE RefsFrom(nd.mChildren[c]) \o OfChildren(c + 1)
    IN nd.mMeshes \o OfChildren(1)

ImportFailure == scene.isNull \/ scene.incomplete \/ ~scene.hasRootNode

(* C6: on no scene, an incomplete scene or a scene without root node    *)
(* load_model returns false with an empty model and process_assimp_mesh *)
(* is never entered; when it returns true the model has one mesh per    *)
(* mesh reference reached from the root node.                           *)
C6_FailureOrOneMeshPerRef ==
    /\ ImportFailure => entered = <<>>
    /\ (pc = "returned" /\ ImportFailure) =>
           /\ result.first = FALSE
           /\ result.second.meshes = <<>>
           /\ DOMAIN result.second.bones = {}
    /\ (pc = "returned" /\ result.first = TRUE) =>
           /\ ~ImportFailure
           /\ Len(result.second.meshes) = Len(RefsFrom(1))
           /\ entered = [k \in 1..Len(RefsFrom(1)) |-> scene.mMeshes[RefsFrom(1)[k] + 1]]

C6_Witness ==
    /\ pc = "returned"
    /\ scene.incomplete /\ scene.hasRootNode /\ ~scene.isNull
    /\ result.first = FALSE

(* The position (0-based) of the first index of face f (1-based) in the *)
(* concatenation of the faces of a source mesh.                         *)
RECURSIVE FaceStart(_, _)
FaceStart(src, f) ==
    IF f <= 1 THEN 0 ELSE FaceStart(src, f - 1) + Len(src.mFaces[f - 1].mIndices)

(* C7: the index container of an assembled mesh is the concatenation of *)
(* the source faces' index lists, in face order and face-local order,   *)
(* values unchanged, whatever the settings.                             *)
C7_IndicesConcatenated ==
    \A k \in Assembled :
        LET src == Source(k)
            out == OutMesh(k)
        IN /\ Len(out.indicies) = FaceStart(src, Len(src.mFaces) + 1)
           /\ \A f \in 1..Len(src.mFaces) :
                  \A j \in 1..Len(src.mFaces[f].mIndices) :
                      At(out.indicies, FaceStart(src, f) + j) = src.mFaces[f].mIndices[j]

C7_Witness ==
    \E k \in Assembled :
        /\ Len(Source(k).mFaces) >= 2
        /\ Source(k).mFaces[1].mIndices # Source(k).mFaces[2].mIndices
        /\ Len(OutMesh(k).indicies) >= 5

(* C8: the mesh in assembly has no index in its index container before  *)
(* its attribute set is resolved and its vertices are emitted, and the  *)
(* bone merge has run for every assembled mesh: its bones are in        *)
(* model.bones.                                                         *)
C8_StepOrder ==
    /\ mpc \in {"layout", "containers", "vertices"} => outmesh.indicies = <<>>
    /\ \A k \in Assembled :
           \A b \in 1..Len(Source(k).mBones) :
               Source(k).mBones[b].mName \in DOMAIN TheModel.bones

(* The floats that belong to attribute a of vertex v of a source mesh:  *)
(* those of its arrays, or the fallback of an attribute it lacks.       *)
Components(p) == {p.x, p.y, p.z}

ValuesOf(src, a, v) ==
    CASE a = position ->
           IF SourceHas(src, a) THEN Components(mVertices(v)) ELSE {0}
      [] a = normal ->
           IF SourceHas(src, a) THEN Components(mNormals(v)) ELSE {0}
      [] a = texcoord ->
           IF SourceHas(src, a) THEN Components(mTextureCoords0(v)) ELSE {0}
      [] a = tangents_bitangents ->
           IF SourceHas(src, a)
           THEN Components(mTangents(v)) \cup Components(mBitangents(v)) ELSE {0}
      [] a = bones_indices -> {-1}
      [] a = bones_weights -> {0}

(* C9: interleaved, vertex v occupies [v*s, (v+1)*s) of the single      *)
(* stream and each attribute of S lies at the offset that is the sum of *)
(* the element counts of the attributes of S before it in enum order;   *)
(* not interleaved, the i-th stream holds the i-th attribute of S.      *)
C9_LayoutInEnumOrder ==
    \A k \in Assembled :
        LET out == OutMesh(k)
            src == Source(k)
            S == out.attributes
            n == src.mNumVertices
        IN /\ Len(out.vertices) = IF settings.interleave_attributes THEN 1 ELSE Cardinality(S)
           /\ settings.interleave_attributes => Len(out.vertices[1]) = n * Stride(S)
           /\ \A a \in S : \A v \in 0..(n - 1) : \A j \in 1..ElementCount(a) :
                  Slot(out, a, v, j) \in ValuesOf(src, a, v)

C9_Witness ==
    \E k \in Assembled :
        /\ settings.interleave_attributes
        /\ Source(k).mNumVertices >= 2
        /\ SourceHas(Source(k), position)
        /\ SourceHas(Source(k), normal)
        /\ SourceHas(Source(k), texcoord)
        /\ OutMesh(k).attributes = {position, normal, texcoord, bones_indices, bones_weights}
        /\ settings.max_influencial_bones >= 1

NothingToEmit(k) ==
    /\ \A a \in attribute : ~SourceHas(Source(k), a)
    /\ settings.force_attributes = {}

(* C10 as stated: a mesh whose source has no attribute and on which     *)
(* none is forced has an empty vertex-stream list, interleaved or not.  *)
C10_EmptySetNoStreams ==
    \A k \in Assembled :
        NothingToEmit(k) =>
            /\ OutMesh(k).attributes = {}
            /\ OutMesh(k).vertices = <<>>

(* C10 amended: such a mesh has an empty vertex-stream list when        *)
(* interleave_attributes is false and a list of exactly one empty       *)
(* stream when it is true.                                              *)
C10_EmptySetStreams ==
    \A k \in Assembled :
        NothingToEmit(k) =>
            /\ OutMesh(k).attributes = {}
            /\ OutMesh(k).vertices =
                   IF settings.interleave_attributes THEN <<<<>>>> ELSE <<>>

C10_Witness ==
    \E k \in Assembled :
        /\ NothingToEmit(k)
        /\ settings.interleave_attributes
        /\ Source(k).mNumVertices >= 2
        /\ Len(OutMesh(k).vertices) = 1

====
